---- MODULE Spec2Model ----
(***************************************************************************)
(* Model of lighthouse-core/lib/sd-validation/schema-validator.js: the     *)
(* schema.org validation of an expanded JSON-LD document.                  *)
(*                                                                         *)
(* JavaScript strings are TLA+ strings (Len, SubSeq and \o act on their    *)
(* characters). JSON values are tagged records:                            *)
(*   [t |-> "null"]                                                        *)
(*   [t |-> "str", s |-> "..."]                                            *)
(*   [t |-> "arr", e |-> <<value, ...>>]                                   *)
(*   [t |-> "obj", e |-> <<[k |-> key, v |-> value], ...>>]  (entries in   *)
(*                                                    insertion order)     *)
(* A call that throws yields [ok |-> FALSE, error |-> ...], a call that    *)
(* returns yields [ok |-> TRUE, val |-> ...].                              *)
(***************************************************************************)
EXTENDS Integers, Sequences, FiniteSets, TLC

VARIABLES
  schemaStructure,  \* the loaded type graph: [types, properties]
  uri,              \* cleanName: the argument
  cleaned,          \* cleanName: the values returned by successive applications
  type,             \* getPropsForType: the argument
  props,            \* getPropsForType: the outcome
  typeOrTypes,      \* validateObjectKeys: first argument
  keys,             \* validateObjectKeys: second argument
  keyErrors,        \* validateObjectKeys: the outcome
  calls             \* validateSchemaOrg: the invocations, by call id

vars == <<schemaStructure, uri, cleaned, type, props, typeOrTypes, keys,
          keyErrors, calls>>

NotCalled == [ok |-> FALSE, error |-> "not called"]

Ok(v) == [ok |-> TRUE, val |-> v]

Throw(msg) == [ok |-> FALSE, error |-> msg]

Min(S) == CHOOSE x \in S : \A y \in S : x <= y

\* The rest of a computation after a call: skipped when the call threw.
Then(r, Rest(_)) == IF r.ok THEN Rest(r.val) ELSE r

(***************************************************************************)
(* Strings and the regular expressions of the source.                      *)
(***************************************************************************)
TYPE_KEYWORD == "@type"

HttpUrl == "http://schema.org/"

HttpsUrl == "https://schema.org/"

StartsAt(s, i, lit) ==
  /\ i >= 1
  /\ i + Len(lit) - 1 <= Len(s)
  /\ SubSeq(s, i, i + Len(lit) - 1) = lit

\* /https?:\/\/schema\.org\// tried at position i of s: the length of the
\* match there, 0 when there is none. The expression has no ^ anchor.
SCHEMA_ORG_URL_REGEX(s, i) ==
  IF StartsAt(s, i, HttpUrl) THEN Len(HttpUrl)
  ELSE IF StartsAt(s, i, HttpsUrl) THEN Len(HttpsUrl)
  ELSE 0

\* The position of the leftmost match in s, 0 when there is none. The
\* expression has no g flag: every search starts at the first character.
RegexSearch(s) ==
  LET I == {i \in 1..Len(s) : SCHEMA_ORG_URL_REGEX(s, i) > 0}
  IN  IF I = {} THEN 0 ELSE Min(I)

\* SCHEMA_ORG_URL_REGEX.test(s)
RegexTest(s) == RegexSearch(s) > 0

\* uri.replace(SCHEMA_ORG_URL_REGEX, ''): the leftmost match is removed.
cleanName(u) ==
  LET i == RegexSearch(u)
  IN  IF i = 0 THEN u
      ELSE SubSeq(u, 1, i - 1)
             \o SubSeq(u, i + SCHEMA_ORG_URL_REGEX(u, i), Len(u))

EndsWith(s, suffix) ==
  /\ Len(suffix) <= Len(s)
  /\ SubSeq(s, Len(s) - Len(suffix) + 1, Len(s)) = suffix

\* key.replace(/-(input|output)$/, '')
StripInputOutput(key) ==
  IF EndsWith(key, "-input") THEN SubSeq(key, 1, Len(key) - Len("-input"))
  ELSE IF EndsWith(key, "-output")
       THEN SubSeq(key, 1, Len(key) - Len("-output"))
  ELSE key

\* key.indexOf('@') !== 0
IsNotKeyword(key) == ~StartsAt(key, 1, "@")

(***************************************************************************)
(* The type graph (assets/schema-tree.json once loaded) and its lookups.   *)
(***************************************************************************)
Undefined == [t |-> "undefined"]

Includes(seq, x) == \E i \in 1..Len(seq) : seq[i] = x

ToSet(seq) == {seq[i] : i \in 1..Len(seq)}

\* schemaStructure.types.find(typeObj => typeObj.name === cleanType)
findType(t) ==
  LET cleanType == cleanName(t)
      I == {i \in 1..Len(schemaStructure.types) :
              schemaStructure.types[i].name = cleanType}
  IN  IF I = {} THEN Undefined ELSE schemaStructure.types[Min(I)]

MissingTypeError(t) == "Unable to get props for missing type \"" \o t \o "\""

\* What the engine raises when the recursion never comes back.
StackOverflow == "RangeError: Maximum call stack size exceeded"

\* schemaStructure.properties.filter(prop => prop.parent.includes(cleanType))
\*   .map(prop => prop.name)
DirectProps(cleanType) ==
  LET ps == schemaStructure.properties
      hit == SelectSeq(ps, LAMBDA prop : Includes(prop.parent, cleanType))
  IN  [i \in 1..Len(hit) |-> hit[i].name]

RECURSIVE resolveType(_, _)
RECURSIVE reduceParents(_, _, _)

\* One activation of getPropsForType. `active` holds the cleaned names of
\* the activations below it on the call stack: the function keeps no
\* visited set, so an activation for a type that is already active repeats
\* the computation that led to it and the recursion has no end.
resolveType(t, active) ==
  LET cleanType == cleanName(t)
      foundType == findType(t)
  IN  IF foundType = Undefined THEN Throw(MissingTypeError(t))
      ELSE IF cleanType \in active THEN Throw(StackOverflow)
      ELSE reduceParents(foundType.parent, DirectProps(cleanType),
                         active \cup {cleanType})

\* parentTypes.reduce((allProps, type) =>
\*   allProps.concat(getPropsForType(type)), props): left to right, the
\* first exception ends it.
reduceParents(parentTypes, allProps, active) ==
  IF parentTypes = <<>> THEN Ok(allProps)
  ELSE Then(resolveType(Head(parentTypes), active),
            LAMBDA inherited :
              reduceParents(Tail(parentTypes), allProps \o inherited,
                            active))

getPropsForType(t) == resolveType(t, {})

(***************************************************************************)
(* JSON values.                                                            *)
(***************************************************************************)
Null == [t |-> "null"]

Str(s) == [t |-> "str", s |-> s]

Arr(e) == [t |-> "arr", e |-> e]

Obj(e) == [t |-> "obj", e |-> e]

Entry(k, v) == [k |-> k, v |-> v]

(***************************************************************************)
(* validateObjectKeys                                                      *)
(***************************************************************************)
UnknownValueType == "Unknown value type"

UnrecognizedType(t) == "Unrecognized schema.org type " \o t

UnexpectedProperty(key) == "Unexpected property \"" \o key \o "\""

MapSeq(seq, Op(_)) == [i \in 1..Len(seq) |-> Op(seq[i])]

\* types.forEach(type => getPropsForType(type).forEach(key =>
\*   safelist.push(key))): the first exception ends it.
RECURSIVE buildSafelist(_, _)
buildSafelist(types, safelist) ==
  IF types = <<>> THEN Ok(safelist)
  ELSE Then(getPropsForType(Head(types)),
            LAMBDA knownProps :
              buildSafelist(Tail(types), safelist \o knownProps))

\* The property checks of validateObjectKeys, once every type is known.
unexpectedKeys(safelist, ks) ==
  LET cleanKeys == MapSeq(SelectSeq(ks, IsNotKeyword), cleanName)
      stripped == MapSeq(cleanKeys, StripInputOutput)
  IN  MapSeq(SelectSeq(stripped, LAMBDA key : ~Includes(safelist, key)),
             UnexpectedProperty)

checkKeys(types, ks) ==
  Then(buildSafelist(types, <<>>),
       LAMBDA safelist : Ok(unexpectedKeys(safelist, ks)))

\* The messages for the unknown types, returned without any property check.
unrecognizedTypes(unknownTypes) ==
  MapSeq(SelectSeq(unknownTypes, RegexTest), UnrecognizedType)

\* const unknownTypes = types.filter(t => !findType(t))
unknownAmong(types) == SelectSeq(types, LAMBDA t : findType(t) = Undefined)

\* validateTypes without the early return of line 81: the property checks
\* run on the known types and their messages follow the others.
validateTypesNoReturn(types, ks) ==
  IF Len(unknownAmong(types)) > 0
  THEN Then(checkKeys(SelectSeq(types, LAMBDA t : findType(t) # Undefined),
                      ks),
            LAMBDA unexpected :
              Ok(unrecognizedTypes(unknownAmong(types)) \o unexpected))
  ELSE checkKeys(types, ks)

\* Lines 71-101, with the declared types as a sequence.
validateTypes(types, ks) ==
  IF Len(unknownAmong(types)) > 0
  THEN Ok(unrecognizedTypes(unknownAmong(types)))
  ELSE checkKeys(types, ks)

\* Lines 55-102. The elements of an array of types are strings, as the
\* expanded form has them.
validateObjectKeys(tt, ks) ==
  IF tt.t = "str" THEN validateTypes(<<tt.s>>, ks)
  ELSE IF tt.t = "arr"
       THEN validateTypes([i \in 1..Len(tt.e) |-> tt.e[i].s], ks)
  ELSE Ok(<<UnknownValueType>>)

(***************************************************************************)
(* The walker (helpers/walk-object.js) and validateSchemaOrg.              *)
(***************************************************************************)
\* The key/value pairs of a value, in insertion order: an object's entries,
\* an array's elements under their indices; nothing else has pairs.
Entries(v) ==
  IF v.t = "obj" THEN v.e
  ELSE IF v.t = "arr"
       THEN [i \in 1..Len(v.e) |-> Entry(ToString(i - 1), v.e[i])]
  ELSE <<>>

\* Object.keys(obj)
ObjectKeys(obj) == LET es == Entries(obj) IN [i \in 1..Len(es) |-> es[i].k]

RECURSIVE walkObject(_, _)
RECURSIVE walkEntries(_, _, _)

\* The visits (name, value, path, obj) the walker makes below obj, depth
\* first, each pair before the pairs of its value.
walkObject(obj, path) == walkEntries(obj, Entries(obj), path)

walkEntries(obj, es, path) ==
  IF es = <<>> THEN <<>>
  ELSE LET newPath == Append(path, Head(es).k)
       IN  << [name |-> Head(es).k, value |-> Head(es).v,
               path |-> newPath, obj |-> obj] >>
             \o walkObject(Head(es).v, newPath)
             \o walkEntries(obj, Tail(es), path)

\* segments.join('/')
RECURSIVE Join(_)
Join(segments) ==
  IF segments = <<>> THEN ""
  ELSE IF Len(segments) = 1 THEN segments[1]
  ELSE segments[1] \o "/" \o Join(Tail(segments))

\* '/' + path.slice(0, -1).map(cleanName).join('/')
errorPath(path) ==
  "/" \o Join(MapSeq(SubSeq(path, 1, Len(path) - 1), cleanName))

\* unwrap without the length test: the first element of any array.
unwrapAny(expandedObj) ==
  IF expandedObj.t = "arr" /\ Len(expandedObj.e) >= 1 THEN expandedObj.e[1]
  ELSE expandedObj

\* if (Array.isArray(expandedObj) && expandedObj.length === 1)
\*   expandedObj = expandedObj[0];
unwrap(expandedObj) ==
  IF expandedObj.t = "arr" /\ Len(expandedObj.e) = 1 THEN expandedObj.e[1]
  ELSE expandedObj

\* The visitor passed to walkObject: the records one visit adds to errors,
\* or the exception validateObjectKeys raised.
visitor(visit) ==
  IF visit.name = TYPE_KEYWORD
  THEN Then(validateObjectKeys(visit.value, ObjectKeys(visit.obj)),
            LAMBDA keyErrorMessages :
              Ok(MapSeq(keyErrorMessages,
                        LAMBDA message : [path |-> errorPath(visit.path),
                                          message |-> message])))
  ELSE Ok(<<>>)

RECURSIVE visitAll(_, _)
visitAll(visits, errors) ==
  IF visits = <<>> THEN Ok(errors)
  ELSE Then(visitor(Head(visits)),
            LAMBDA added : visitAll(Tail(visits), errors \o added))

\* One whole call, with no other call before or during it.
validateSchemaOrg(expandedObj) ==
  IF expandedObj = Null THEN Ok(<<>>)
  ELSE visitAll(walkObject(unwrap(expandedObj), <<>>), <<>>)

(***************************************************************************)
(* Bounded inputs.                                                         *)
(***************************************************************************)
MaxSegs == 3

MaxTypes == 2

MaxParents == 2

MaxProps == 2

Segments ==
  {HttpUrl, HttpsUrl, "http://sch", "ema.org/", "name", "x"}

\* Every concatenation of at most n segments.
RECURSIVE Concats(_)
Concats(n) ==
  IF n = 0 THEN {""}
  ELSE LET shorter == Concats(n - 1)
       IN  shorter \cup {s \o g : s \in shorter, g \in Segments}

Strings == Concats(MaxSegs)

TypeNameList == <<"Thing", "Person", "Place", "Event">>

PropNameList == <<"name", "url", "address", "date">>

TypeNames == {TypeNameList[i] : i \in 1..MaxTypes}

\* Sequences over S without repetition, of length at most n.
SeqsNoRep(S, n) ==
  UNION {{s \in [1..k -> S] : \A i, j \in 1..k : i # j => s[i] # s[j]} :
           k \in 0..n}

ParentLists == SeqsNoRep(TypeNames, MaxParents)

\* The first k names are types of the graph; a parent list may name any of
\* TypeNames, so with k < MaxTypes it may name a type the graph lacks.
TypeTables ==
  UNION {{[i \in 1..k |-> [name |-> TypeNameList[i], parent |-> f[i]]] :
            f \in [1..k -> ParentLists]} : k \in 1..MaxTypes}

PropertyTables ==
  {[i \in 1..MaxProps |-> [name |-> PropNameList[i], parent |-> g[i]]] :
     g \in [1..MaxProps -> ParentLists]}

Graphs == [types : TypeTables, properties : PropertyTables]

TypeArgs ==
  TypeNames \cup {HttpUrl \o n : n \in TypeNames}
            \cup {HttpsUrl \o n : n \in TypeNames}

IdleGraph == [types |-> <<>>, properties |-> <<>>]

(***************************************************************************)
(* cleanName, applied to a string and then to its own result.              *)
(***************************************************************************)
InitCleanName ==
  /\ schemaStructure = IdleGraph
  /\ uri \in Strings
  /\ cleaned = <<>>
  /\ type = "" /\ props = NotCalled
  /\ typeOrTypes = [t |-> "null"] /\ keys = <<>> /\ keyErrors = NotCalled
  /\ calls = <<>>

CleanName ==
  /\ Len(cleaned) < 2
  /\ cleaned' = Append(cleaned,
                       cleanName(IF cleaned = <<>> THEN uri
                                 ELSE cleaned[Len(cleaned)]))
  /\ UNCHANGED <<schemaStructure, uri, type, props, typeOrTypes, keys,
                 keyErrors, calls>>

NextCleanName == CleanName

SpecCleanName == InitCleanName /\ [][NextCleanName]_vars

(***************************************************************************)
(* getPropsForType on a type graph.                                        *)
(***************************************************************************)
InitProps ==
  /\ schemaStructure \in Graphs
  /\ type \in TypeArgs
  /\ props = NotCalled
  /\ uri = "" /\ cleaned = <<>>
  /\ typeOrTypes = [t |-> "null"] /\ keys = <<>> /\ keyErrors = NotCalled
  /\ calls = <<>>

GetPropsForType ==
  /\ props = NotCalled
  /\ props' = getPropsForType(type)
  /\ UNCHANGED <<schemaStructure, uri, cleaned, type, typeOrTypes, keys,
                 keyErrors, calls>>

NextProps == GetPropsForType

SpecProps == InitProps /\ [][NextProps]_vars

(***************************************************************************)
(* validateObjectKeys on a type graph, declared types and keys.            *)
(***************************************************************************)
MaxDeclared == 2

MaxKeys == 2

TypeNode(n, parent) == [name |-> n, parent |-> parent]

PropertyNode(n, parent) == [name |-> n, parent |-> parent]

SampleProperties ==
  << PropertyNode("name", <<"Thing">>),
     PropertyNode("address", <<"Person", "Organization">>) >>

\* A well-formed hierarchy.
TreeGraph ==
  [types |-> << TypeNode("Thing", <<>>),
                TypeNode("Person", <<"Thing">>),
                TypeNode("Organization", <<"Thing">>) >>,
   properties |-> SampleProperties]

\* Person names a parent that is no type of the graph.
DanglingGraph ==
  [types |-> << TypeNode("Person", <<"Thing">>),
                TypeNode("Organization", <<>>) >>,
   properties |-> SampleProperties]

\* Thing and Person are each other's parent.
CyclicGraph ==
  [types |-> << TypeNode("Thing", <<"Person">>),
                TypeNode("Person", <<"Thing">>),
                TypeNode("Organization", <<>>) >>,
   properties |-> SampleProperties]

SampleGraphs == {TreeGraph, DanglingGraph, CyclicGraph}

TypeStrings ==
  {"Person", "http://schema.org/Organization", "https://schema.org/NotAType",
   "Foreign", "ext:http://schema.org/Gadget"}

KeyStrings ==
  {"@id", "http://schema.org/name", "address-input", "bogus",
   "ext:http://schema.org/name"}

Seqs(S, n) == UNION {[1..k -> S] : k \in 0..n}

\* A string, a sequence of strings, or a value that is neither.
TypeValues ==
  {Str(s) : s \in TypeStrings}
    \cup {Arr(MapSeq(ts, Str)) : ts \in Seqs(TypeStrings, MaxDeclared)}
    \cup {Null}

\* Object.keys of an object: no key twice.
KeyLists == SeqsNoRep(KeyStrings, MaxKeys)

InitKeys ==
  /\ schemaStructure \in SampleGraphs
  /\ typeOrTypes \in TypeValues
  /\ keys \in KeyLists
  /\ keyErrors = NotCalled
  /\ uri = "" /\ cleaned = <<>>
  /\ type = "" /\ props = NotCalled
  /\ calls = <<>>

ValidateObjectKeys ==
  /\ keyErrors = NotCalled
  /\ keyErrors' = validateObjectKeys(typeOrTypes, keys)
  /\ UNCHANGED <<schemaStructure, uri, cleaned, type, props, typeOrTypes,
                 keys, calls>>

NextKeys == ValidateObjectKeys

SpecKeys == InitKeys /\ [][NextKeys]_vars

\* The same on the well-formed hierarchy alone.
InitKeysTree == InitKeys /\ schemaStructure = TreeGraph

SpecKeysTree == InitKeysTree /\ [][NextKeys]_vars

(***************************************************************************)
(* Calls of validateSchemaOrg. A call runs in three steps: Begin (the null *)
(* check, the unwrapping and the start of the walk), one Callback per      *)
(* visit of the walker, and Return. A call record holds                    *)
(*   input   the document as it was when the call was made,                *)
(*   doc     the caller's document as it is now,                           *)
(*   graph   the type graph as it was when the call was made,              *)
(*   pending the visits the walker has still to make,                      *)
(*   errors  the call's local errors array,                                *)
(*   state   "walking", "returned" or "thrown" (with the exception).       *)
(***************************************************************************)
MaxCalls == 2

PersonDoc ==
  Obj(<< Entry(TYPE_KEYWORD, Str("Person")),
         Entry("http://schema.org/name", Str("x")),
         Entry("http://schema.org/bogus", Str("y")) >>)

NotATypeDoc ==
  Obj(<< Entry(TYPE_KEYWORD, Arr(<<Str("https://schema.org/NotAType")>>)) >>)

NestedDoc ==
  Obj(<< Entry(TYPE_KEYWORD, Arr(<<Str("Person")>>)),
         Entry("http://schema.org/address", Arr(<<NotATypeDoc>>)) >>)

ForeignKeyDoc ==
  Obj(<< Entry("ext:http://schema.org/knows",
               Obj(<< Entry(TYPE_KEYWORD, Str("Organization")),
                      Entry("bogus", Str("y")) >>)) >>)

BadTypeDoc == Obj(<< Entry(TYPE_KEYWORD, Null) >>)

BaseDocs ==
  {Null, PersonDoc, NotATypeDoc, NestedDoc, ForeignKeyDoc, BadTypeDoc,
   Arr(<<>>), Arr(<<PersonDoc>>), Arr(<<PersonDoc, NotATypeDoc>>)}

\* Every base document, bare and wrapped in a single-element array.
Docs == BaseDocs \cup {Arr(<<x>>) : x \in BaseDocs}

ConcurrentDocs ==
  {Null, PersonDoc, NestedDoc, ForeignKeyDoc, Arr(<<PersonDoc, NotATypeDoc>>)}

CallGraphs == {TreeGraph, DanglingGraph}

Finished(c) == calls[c].state \in {"returned", "thrown"}

InitCalls ==
  /\ schemaStructure \in CallGraphs
  /\ calls = <<>>
  /\ uri = "" /\ cleaned = <<>>
  /\ type = "" /\ props = NotCalled
  /\ typeOrTypes = Null /\ keys = <<>> /\ keyErrors = NotCalled

\* Begin with errors kept in one array of the module instead of one per
\* call: a call starts with what the call before it collected.
BeginStale(expandedObj) ==
  /\ Len(calls) < MaxCalls
  /\ calls' = Append(calls,
       [input |-> expandedObj,
        doc |-> expandedObj,
        graph |-> schemaStructure,
        pending |-> IF expandedObj = Null THEN <<>>
                    ELSE walkObject(unwrap(expandedObj), <<>>),
        errors |-> IF calls = <<>> THEN <<>> ELSE calls[Len(calls)].errors,
        state |-> IF expandedObj = Null THEN "returned" ELSE "walking",
        error |-> ""])
  /\ UNCHANGED <<schemaStructure, uri, cleaned, type, props, typeOrTypes,
                 keys, keyErrors>>

\* Lines 108-120: errors starts empty; null returns at once; a one-element
\* array is unwrapped; the walk starts.
Begin(expandedObj) ==
  /\ Len(calls) < MaxCalls
  /\ calls' = Append(calls,
       [input |-> expandedObj,
        doc |-> expandedObj,
        graph |-> schemaStructure,
        pending |-> IF expandedObj = Null THEN <<>>
                    ELSE walkObject(unwrap(expandedObj), <<>>),
        errors |-> <<>>,
        state |-> IF expandedObj = Null THEN "returned" ELSE "walking",
        error |-> ""])
  /\ UNCHANGED <<schemaStructure, uri, cleaned, type, props, typeOrTypes,
                 keys, keyErrors>>

\* The call record after a visit whose visitor gave r.
Visited(call, r) ==
  [call EXCEPT
     !.pending = Tail(@),
     !.errors = IF r.ok THEN @ \o r.val ELSE @,
     !.state = IF r.ok THEN @ ELSE "thrown",
     !.error = IF r.ok THEN @ ELSE r.error]

\* Lines 120-132: the walker's next visit.
Callback(c) ==
  /\ calls[c].state = "walking"
  /\ calls[c].pending # <<>>
  /\ calls' = [calls EXCEPT
                 ![c] = Visited(@, visitor(Head(calls[c].pending)))]
  /\ UNCHANGED <<schemaStructure, uri, cleaned, type, props, typeOrTypes,
                 keys, keyErrors>>

\* Line 134.
Return(c) ==
  /\ calls[c].state = "walking"
  /\ calls[c].pending = <<>>
  /\ calls' = [calls EXCEPT ![c].state = "returned"]
  /\ UNCHANGED <<schemaStructure, uri, cleaned, type, props, typeOrTypes,
                 keys, keyErrors>>

\* What a finished call gave its caller.
Outcome(c) ==
  IF calls[c].state = "thrown" THEN Throw(calls[c].error)
  ELSE Ok(calls[c].errors)

\* One call after the other, as the single-threaded caller makes them.
BeginNext ==
  \E d \in Docs : (\A c \in 1..Len(calls) : Finished(c)) /\ Begin(d)

NextCalls ==
  \/ BeginNext
  \/ \E c \in 1..Len(calls) : Callback(c)
  \/ \E c \in 1..Len(calls) : Return(c)

SpecCalls == InitCalls /\ [][NextCalls]_vars

\* Calls that start while others are still walking.
BeginAny == \E d \in ConcurrentDocs : Begin(d)

NextInterleaved ==
  \/ BeginAny
  \/ \E c \in 1..Len(calls) : Callback(c)
  \/ \E c \in 1..Len(calls) : Return(c)

SpecInterleaved == InitCalls /\ [][NextInterleaved]_vars

(***************************************************************************)
(* What the specification says, stated without the functions above.        *)
(***************************************************************************)
\* The name without its schema.org URL, when the URL is its prefix.
RemoveUrlPrefix(s) ==
  IF StartsAt(s, 1, HttpUrl) THEN SubSeq(s, Len(HttpUrl) + 1, Len(s))
  ELSE IF StartsAt(s, 1, HttpsUrl) THEN SubSeq(s, Len(HttpsUrl) + 1, Len(s))
  ELSE s

ContainsUrl(s) ==
  \E i \in 1..Len(s) : StartsAt(s, i, HttpUrl) \/ StartsAt(s, i, HttpsUrl)

TypeNamed(n) ==
  {schemaStructure.types[i] : i \in {j \in 1..Len(schemaStructure.types) :
                                       schemaStructure.types[j].name = n}}

IsKnownName(n) == TypeNamed(n) # {}

ParentNames(n) == UNION {ToSet(node.parent) : node \in TypeNamed(n)}

\* The names reachable from the names of S through parent links, S included.
RECURSIVE ReachableFrom(_)
ReachableFrom(S) ==
  LET next == S \cup UNION {ParentNames(n) : n \in S}
  IN  IF next = S THEN S ELSE ReachableFrom(next)

\* No type reaches itself through one or more parent links.
Acyclic ==
  \A i \in 1..Len(schemaStructure.types) :
    schemaStructure.types[i].name
      \notin ReachableFrom(ToSet(schemaStructure.types[i].parent))

\* The properties whose parent list names a type of S.
PropertiesOn(S) ==
  {schemaStructure.properties[i].name :
     i \in {j \in 1..Len(schemaStructure.properties) :
              ToSet(schemaStructure.properties[j].parent) \cap S # {}}}

InheritedProps(n) == PropertiesOn(ReachableFrom({n}))

(***************************************************************************)
(* Claims about cleanName (SpecCleanName).                                 *)
(***************************************************************************)
\* C5: cleanName is idempotent: applied to its own result it changes
\* nothing, whatever the string.
C5_Idempotent == Len(cleaned) = 2 => cleaned[2] = cleaned[1]

\* C10: cleanName removes the schema.org URL only when it is a prefix: a
\* string that does not start with it comes back unchanged, one that does
\* comes back without that prefix.
C10_PrefixOnly == Len(cleaned) >= 1 => cleaned[1] = RemoveUrlPrefix(uri)

(***************************************************************************)
(* Claims about getPropsForType (SpecProps).                               *)
(***************************************************************************)
\* C6: for a known type T of an acyclic graph, getPropsForType(T) returns
\* exactly the properties listed on T or on a type reachable from T, hence
\* at least those of every direct parent, and none when T has no parents
\* and no property lists T.
C6_InheritedProps ==
  (props # NotCalled /\ Acyclic /\ IsKnownName(RemoveUrlPrefix(type)))
    => /\ props.ok
       /\ ToSet(props.val) = InheritedProps(RemoveUrlPrefix(type))
       /\ \A P \in ParentNames(RemoveUrlPrefix(type)) :
            /\ getPropsForType(P).ok
            /\ ToSet(getPropsForType(P).val) \subseteq ToSet(props.val)
       /\ (ParentNames(RemoveUrlPrefix(type)) = {}
             /\ PropertiesOn({RemoveUrlPrefix(type)}) = {})
            => props.val = <<>>

\* C8: getPropsForType terminates on every finite graph, cyclic ones
\* included: a type met again during a resolution is not resolved again,
\* so the recursion never runs until the stack overflows.
C8_TerminatesOnCycles == ~props.ok => props.error # StackOverflow

(***************************************************************************)
(* Claims about validateObjectKeys (SpecKeys).                             *)
(***************************************************************************)
\* The declared types, when typeOrTypes is a string or a sequence of
\* strings.
Declared ==
  IF typeOrTypes.t = "str" THEN <<typeOrTypes.s>>
  ELSE IF typeOrTypes.t = "arr"
       THEN [i \in 1..Len(typeOrTypes.e) |-> typeOrTypes.e[i].s]
  ELSE <<>>

IsTypeList == typeOrTypes.t \in {"str", "arr"}

SomeUnknown == \E i \in 1..Len(Declared) : findType(Declared[i]) = Undefined

\* One message per unknown declared type that matches the URL pattern, in
\* declared order.
RECURSIVE UnrecognizedMessages(_)
UnrecognizedMessages(ts) ==
  IF ts = <<>> THEN <<>>
  ELSE (IF findType(Head(ts)) = Undefined /\ ContainsUrl(Head(ts))
        THEN <<"Unrecognized schema.org type " \o Head(ts)>>
        ELSE <<>>) \o UnrecognizedMessages(Tail(ts))

IsUnexpectedPropertyMessage(m) == StartsAt(m, 1, "Unexpected property")

\* C1: when a declared type is unknown, validateObjectKeys returns exactly
\* the "Unrecognized schema.org type" messages of the unknown types that
\* match the URL pattern, in declared order, and no "Unexpected property"
\* message, whatever the keys and the other declared types are.
C1_UnknownTypesOnly ==
  (keyErrors # NotCalled /\ IsTypeList /\ SomeUnknown)
    => /\ keyErrors = Ok(UnrecognizedMessages(Declared))
       /\ \A i \in 1..Len(keyErrors.val) :
            ~IsUnexpectedPropertyMessage(keyErrors.val[i])

\* A known type with keys that are not its properties, declared beside an
\* unknown schema.org type and an unknown foreign one: one message comes
\* back.
C1_Witness ==
  /\ schemaStructure = TreeGraph
  /\ typeOrTypes = Arr(<<Str("Person"), Str("https://schema.org/NotAType")>>)
  /\ keys = <<"bogus", "http://schema.org/name">>
  /\ keyErrors = Ok(<<"Unrecognized schema.org type https://schema.org/NotAType">>)

\* The key as the allow-list sees it: URL prefix removed, then one trailing
\* -input or -output removed.
NormalizedKey(k) == StripInputOutput(RemoveUrlPrefix(k))

AllowedProps == UNION {InheritedProps(RemoveUrlPrefix(Declared[i])) :
                         i \in 1..Len(Declared)}

RECURSIVE UnexpectedMessages(_)
UnexpectedMessages(ks) ==
  IF ks = <<>> THEN <<>>
  ELSE (IF ~StartsAt(Head(ks), 1, "@")
           /\ NormalizedKey(Head(ks)) \notin AllowedProps
        THEN <<"Unexpected property \"" \o NormalizedKey(Head(ks)) \o "\"">>
        ELSE <<>>) \o UnexpectedMessages(Tail(ks))

\* C2: when every declared type is known, validateObjectKeys returns one
\* "Unexpected property" message for each key that does not start with @
\* and whose normalized form is not a property of any declared type, in the
\* order of the keys, and nothing else.
C2_UnexpectedProperties ==
  (keyErrors # NotCalled /\ IsTypeList /\ ~SomeUnknown)
    => keyErrors = Ok(UnexpectedMessages(keys))

\* C9: the unknown-type error of getPropsForType is never raised during
\* validateObjectKeys, whatever the graph and the declared types.
C9_NoMissingTypeError ==
  ~keyErrors.ok => ~StartsAt(keyErrors.error, 1, "Unable to get props")

(***************************************************************************)
(* Claims about validateSchemaOrg (SpecCalls, SpecInterleaved).            *)
(***************************************************************************)
FinishedCalls == {c \in 1..Len(calls) : Finished(c)}

IsSingleElementArray(x) == x.t = "arr" /\ Len(x.e) = 1

\* C3 as stated: for every document x, validateSchemaOrg([x]) returns what
\* validateSchemaOrg(x) returns, also when x is itself an array of one
\* element.
C3_WrappedSame ==
  \A a, b \in FinishedCalls :
    calls[b].input = Arr(<<calls[a].input>>) => Outcome(b) = Outcome(a)

\* C3 amended: for every document x that is not itself an array of exactly
\* one element, validateSchemaOrg([x]) returns what validateSchemaOrg(x)
\* returns.
C3_WrappedSameUnlessSingleton ==
  \A a, b \in FinishedCalls :
    (calls[b].input = Arr(<<calls[a].input>>)
       /\ ~IsSingleElementArray(calls[a].input))
      => Outcome(b) = Outcome(a)

\* A document with two nodes in error has been validated bare and wrapped,
\* and both calls reported the same two records.
C3_Witness ==
  \E a, b \in FinishedCalls :
    /\ calls[a].input = Arr(<<PersonDoc, NotATypeDoc>>)
    /\ calls[b].input = Arr(<<calls[a].input>>)
    /\ Outcome(a).ok /\ Len(Outcome(a).val) = 2
    /\ Outcome(b) = Outcome(a)

\* The records the specification asks for, visit by visit: for a visit of
\* the type keyword, one record per message of validateObjectKeys, its path
\* the visit path without its last segment, every segment without its URL
\* prefix.
RECURSIVE RecordsFor(_)
RecordsFor(visits) ==
  IF visits = <<>> THEN <<>>
  ELSE LET v == Head(visits)
           msgs == validateObjectKeys(v.value, ObjectKeys(v.obj))
           where == "/" \o Join(MapSeq(SubSeq(v.path, 1, Len(v.path) - 1),
                                       RemoveUrlPrefix))
       IN  (IF v.name = "@type" /\ msgs.ok
            THEN [i \in 1..Len(msgs.val) |->
                    [path |-> where, message |-> msgs.val[i]]]
            ELSE <<>>) \o RecordsFor(Tail(visits))

\* C4: a call that returns gives, in traversal order, one record per
\* message of each visit of the type keyword, with the path described
\* above, and no other record.
C4_PathsAndOrder ==
  \A c \in 1..Len(calls) :
    calls[c].state = "returned"
      => calls[c].errors =
           RecordsFor(IF calls[c].input = Null THEN <<>>
                      ELSE walkObject(unwrap(calls[c].input), <<>>))

\* C7: every finished call gave what a call alone on the same input and
\* graph gives, and left the graph and its document as they were.
C7_CallsIndependent ==
  \A c \in FinishedCalls :
    /\ Outcome(c) = validateSchemaOrg(calls[c].input)
    /\ calls[c].doc = calls[c].input
    /\ calls[c].graph = schemaStructure

\* A second call on the same document started and returned its record
\* while the first was in the middle of its walk, its own record collected.
C7_Witness ==
  /\ Len(calls) = 2
  /\ calls[1].input = calls[2].input
  /\ calls[1].state = "walking" /\ calls[1].errors # <<>>
  /\ calls[1].pending # <<>>
  /\ calls[2].state = "returned" /\ calls[2].errors # <<>>

====
